---- MODULE Spec2Model ----
(***************************************************************************)
(* Model of outlook_exe (src/src/lib.rs): the lazily initialised           *)
(* OUTLOOK_EXE path, percent_escape, the MessageBuilder setters and        *)
(* MessageBuilder::spawn.                                                  *)
(*                                                                         *)
(* A Rust String is modelled as a sequence of one-character strings, a     *)
(* Vec<String> as a sequence of such sequences.                            *)
(***************************************************************************)
EXTENDS Integers, Sequences, FiniteSets, TLC

(* ------------------------------ bounds -------------------------------- *)
\* longest input handed to percent_escape in SpecEscape
MaxLen == 4
\* setter calls chained on one builder before spawn
MaxCalls == 5
\* threads calling spawn in SpecConc
NumThreads == 2

Threads == 1..NumThreads

(* ------------------------------ strings ------------------------------- *)
Empty == <<>>
Pct == "%"
Quote == "\""
Amp == "&"
Qm == "?"
Semi == ";"

RECURSIVE Concat(_)
\* concatenation of a sequence of strings
Concat(ss) == IF ss = <<>> THEN <<>> ELSE Head(ss) \o Concat(Tail(ss))

RECURSIVE replace(_, _, _)
\* str::replace(from: char, to: &str): every occurrence of the character
replace(s, from, to) ==
    IF s = <<>> THEN <<>>
    ELSE (IF Head(s) = from THEN to ELSE <<Head(s)>>) \o replace(Tail(s), from, to)

RECURSIVE join(_, _)
\* [String]::join(sep)
join(v, sep) ==
    IF v = <<>> THEN <<>>
    ELSE IF Len(v) = 1 THEN v[1]
    ELSE v[1] \o sep \o join(Tail(v), sep)

\* percent_escape with the '%' pass moved to the end (re-encodes inserted '%')
percent_escape_pct_last(s) ==
    replace(replace(replace(replace(s, Quote, <<"%", "2", "2">>),
                            Amp, <<"%", "2", "6">>),
                    Qm, <<"%", "3", "F">>),
            Pct, <<"%", "2", "5">>)

\* percent_escape without the '&' pass
percent_escape_no_amp(s) ==
    replace(replace(replace(s, Pct, <<"%", "2", "5">>),
                    Quote, <<"%", "2", "2">>),
            Qm, <<"%", "3", "F">>)

percent_escape(s) ==
    replace(replace(replace(replace(s, Pct, <<"%", "2", "5">>),
                            Quote, <<"%", "2", "2">>),
                    Amp, <<"%", "2", "6">>),
            Qm, <<"%", "3", "F">>)

(* --------------------------- MessageBuilder --------------------------- *)
new == [subj |-> Empty, to |-> <<>>, cc |-> <<>>, bcc |-> <<>>,
        body |-> Empty, file |-> Empty]

with_subject(self, subj) ==
    [subj |-> subj, to |-> self.to, cc |-> self.cc, bcc |-> self.bcc,
     body |-> self.body, file |-> self.file]

with_recipient(self, to) ==
    [subj |-> self.subj, to |-> Append(self.to, to), cc |-> self.cc,
     bcc |-> self.bcc, body |-> self.body, file |-> self.file]

\* with_recipient_cc pushing onto the To list
with_recipient_cc_wrong_list(self, cc) ==
    [subj |-> self.subj, to |-> Append(self.to, cc), cc |-> self.cc,
     bcc |-> self.bcc, body |-> self.body, file |-> self.file]

with_recipient_cc(self, cc) ==
    [subj |-> self.subj, to |-> self.to, cc |-> Append(self.cc, cc),
     bcc |-> self.bcc, body |-> self.body, file |-> self.file]

with_recipient_bcc(self, bcc) ==
    [subj |-> self.subj, to |-> self.to, cc |-> self.cc,
     bcc |-> Append(self.bcc, bcc), body |-> self.body, file |-> self.file]

with_body(self, body) ==
    [subj |-> self.subj, to |-> self.to, cc |-> self.cc, bcc |-> self.bcc,
     body |-> body, file |-> self.file]

with_attachment(self, file) ==
    [subj |-> self.subj, to |-> self.to, cc |-> self.cc, bcc |-> self.bcc,
     body |-> self.body, file |-> file]


(* ------------------------- spawn: string assembly --------------------- *)
Str_cc == <<"c", "c", "=">>
Str_bcc == <<"b", "c", "c", "=">>
Str_subject == <<"s", "u", "b", "j", "e", "c", "t", "=">>
Str_body == <<"b", "o", "d", "y", "=">>
Arg_c == <<"/", "c">>
Arg_ipm_note == <<"i", "p", "m", ".", "n", "o", "t", "e">>
Arg_m == <<"/", "m">>
Arg_a == <<"/", "a">>

\* if present { if !s.is_empty() { s.push('&') } s.push_str(prefix); s.push_str(value) }
push_field(s, present, prefix, value) ==
    IF present
    THEN (IF s # Empty THEN s \o <<Amp>> ELSE s) \o prefix \o value
    ELSE s

\* assemble that emits the separator unconditionally
assemble_always_amp(self) ==
    LET sep(x, present, prefix, value) ==
            IF present THEN x \o <<Amp>> \o prefix \o value ELSE x
        s0 == percent_escape(join(self.to, <<Semi>>))
        s1 == sep(s0, self.cc # <<>>, Str_cc, percent_escape(join(self.cc, <<Semi>>)))
        s2 == sep(s1, self.bcc # <<>>, Str_bcc, percent_escape(join(self.bcc, <<Semi>>)))
        s3 == sep(s2, self.subj # Empty, Str_subject, percent_escape(self.subj))
    IN  sep(s3, self.body # Empty, Str_body, percent_escape(self.body))

\* the string s built by spawn
assemble(self) ==
    LET s0 == percent_escape(join(self.to, <<Semi>>))
        s1 == push_field(s0, self.cc # <<>>, Str_cc,
                         percent_escape(join(self.cc, <<Semi>>)))
        s2 == push_field(s1, self.bcc # <<>>, Str_bcc,
                         percent_escape(join(self.bcc, <<Semi>>)))
        s3 == push_field(s2, self.subj # Empty, Str_subject,
                         percent_escape(self.subj))
    IN  push_field(s3, self.body # Empty, Str_body, percent_escape(self.body))

\* the attachment pair with the raw path
attachment_args_unescaped(self) ==
    IF self.file # Empty THEN <<Arg_a, self.file>> ELSE <<>>

\* the vector a built by spawn
attachment_args(self) ==
    IF self.file # Empty THEN <<Arg_a, percent_escape(self.file)>> ELSE <<>>

\* the argument list handed to process::Command
command_args(str, att) == <<Arg_c, Arg_ipm_note, Arg_m, str>> \o att

(* ------------------------------- state -------------------------------- *)
VARIABLES
    debug,      \* cfg!(debug_assertions) of the build
    mb,         \* mb[t]: the MessageBuilder owned by thread t
    pc,         \* pc[t]: where thread t stands in its chain / in spawn
    ncalls,     \* ncalls[t]: setter calls made on t's chain
    hist,       \* hist[t]: the arguments passed to the setters (history)
    s,          \* s[t]: spawn's local String s
    a,          \* a[t]: spawn's local Vec a
    once,       \* state of the Once guarding OUTLOOK_EXE
    cell,       \* the value stored in OUTLOOK_EXE
    regLog,     \* results of the registry queries performed so far
    writes,     \* number of stores into OUTLOOK_EXE
    obs,        \* obs[t]: the Option read by spawn's dereference of OUTLOOK_EXE
    derefs,     \* derefs[t]: dereferences of OUTLOOK_EXE made by t's spawn
    cmd,        \* cmd[t]: the process::Command invocations made by t's spawn
    result,     \* result[t]: what spawn returned
    escIn,      \* argument of a direct percent_escape call
    escOut,     \* its return value
    escPc       \* "ready" before the call, "done" after, "off" when unused

vars == <<debug, mb, pc, ncalls, hist, s, a, once, cell, regLog, writes, obs,
          derefs, cmd, result, escIn, escOut, escPc>>

builderVars == <<mb, pc, ncalls, hist>>
lazyVars == <<once, cell, regLog, writes>>
spawnVars == <<s, a, obs, derefs, cmd, result>>
escVars == <<escIn, escOut, escPc>>

\* Option<&'static str>
None == [tag |-> "None", path |-> Empty]
Some(p) == [tag |-> "Some", path |-> p]
Uninit == [tag |-> "Uninit", path |-> Empty]
\* the string a registered installation stores under App Paths\OUTLOOK.EXE
ExePath == <<"C", ":", "/", "O">>

\* io::Result<process::Child>
Pending == [tag |-> "Pending", kind |-> "", msg |-> ""]
OkChild == [tag |-> "Ok", kind |-> "", msg |-> ""]
\* io::Error::new(io::ErrorKind::NotFound, "OUTLOOK.EXE")
NotFoundError == [tag |-> "Err", kind |-> "NotFound", msg |-> "OUTLOOK.EXE"]
\* an error produced by the operating system for Command::spawn
OsError(k) == [tag |-> "Err", kind |-> k, msg |-> "os"]
OsErrorKinds == {"NotFound", "PermissionDenied", "Other"}
SpawnOutcomes == {"Ok"} \cup OsErrorKinds

\* Result of RegKey::open_subkey / RegKey::get_value
RegResults == {"Ok", "NotFound", "Denied"}

NoHist == [to |-> <<>>, cc |-> <<>>, bcc |-> <<>>,
           subj |-> Empty, body |-> Empty, file |-> Empty,
           nsubj |-> 0, nbody |-> 0, nfile |-> 0]

(* ------------------------- setter calls (actions) --------------------- *)
\* debug_assert!(cond): fails only in a build with debug assertions
debug_assert_fails(cond) == debug /\ ~cond

CanCall(t) == pc[t] = "build" /\ ncalls[t] < MaxCalls

Panic(t) == pc' = [pc EXCEPT ![t] = "panicked"] /\ UNCHANGED mb

WithSubject(t, v) ==
    /\ CanCall(t)
    /\ ncalls' = [ncalls EXCEPT ![t] = @ + 1]
    /\ hist' = [hist EXCEPT ![t].subj = v, ![t].nsubj = @ + 1]
    /\ IF debug_assert_fails(mb[t].subj = Empty)
       THEN Panic(t)
       ELSE mb' = [mb EXCEPT ![t] = with_subject(@, v)] /\ UNCHANGED pc
    /\ UNCHANGED <<debug, lazyVars, spawnVars, escVars>>

WithRecipient(t, v) ==
    /\ CanCall(t)
    /\ ncalls' = [ncalls EXCEPT ![t] = @ + 1]
    /\ hist' = [hist EXCEPT ![t].to = Append(@, v)]
    /\ mb' = [mb EXCEPT ![t] = with_recipient(@, v)]
    /\ UNCHANGED <<debug, pc, lazyVars, spawnVars, escVars>>

WithRecipientCc(t, v) ==
    /\ CanCall(t)
    /\ ncalls' = [ncalls EXCEPT ![t] = @ + 1]
    /\ hist' = [hist EXCEPT ![t].cc = Append(@, v)]
    /\ mb' = [mb EXCEPT ![t] = with_recipient_cc(@, v)]
    /\ UNCHANGED <<debug, pc, lazyVars, spawnVars, escVars>>

WithRecipientBcc(t, v) ==
    /\ CanCall(t)
    /\ ncalls' = [ncalls EXCEPT ![t] = @ + 1]
    /\ hist' = [hist EXCEPT ![t].bcc = Append(@, v)]
    /\ mb' = [mb EXCEPT ![t] = with_recipient_bcc(@, v)]
    /\ UNCHANGED <<debug, pc, lazyVars, spawnVars, escVars>>

WithBody(t, v) ==
    /\ CanCall(t)
    /\ ncalls' = [ncalls EXCEPT ![t] = @ + 1]
    /\ hist' = [hist EXCEPT ![t].body = v, ![t].nbody = @ + 1]
    /\ IF debug_assert_fails(mb[t].body = Empty)
       THEN Panic(t)
       ELSE mb' = [mb EXCEPT ![t] = with_body(@, v)] /\ UNCHANGED pc
    /\ UNCHANGED <<debug, lazyVars, spawnVars, escVars>>

WithAttachment(t, v) ==
    /\ CanCall(t)
    /\ ncalls' = [ncalls EXCEPT ![t] = @ + 1]
    /\ hist' = [hist EXCEPT ![t].file = v, ![t].nfile = @ + 1]
    /\ IF debug_assert_fails(mb[t].file = Empty)
       THEN Panic(t)
       ELSE mb' = [mb EXCEPT ![t] = with_attachment(@, v)] /\ UNCHANGED pc
    /\ UNCHANGED <<debug, lazyVars, spawnVars, escVars>>

(* ------------------------- OUTLOOK_EXE (lazy_static) ------------------ *)
\* Once without mutual exclusion: whoever finds it not yet complete starts
once_can_start_racy == once # "complete"

\* Once::call_once runs the initializer for the first caller only; callers
\* that arrive while it runs wait until it is complete
once_can_start == once = "incomplete"

\* the initializer block: Err of either read becomes None
OUTLOOK_EXE_value(key, value) ==
    IF key # "Ok" THEN None
    ELSE IF value # "Ok" THEN None
    ELSE Some(ExePath)

\* first dereference: the thread takes the Once and starts the initializer
OnceBegin(t) ==
    /\ pc[t] = "assembled"
    /\ once_can_start
    /\ once' = "running"
    /\ pc' = [pc EXCEPT ![t] = "init"]
    /\ UNCHANGED <<debug, mb, ncalls, hist, cell, regLog, writes, spawnVars, escVars>>

\* the initializer queries the registry (key: result of open_subkey, value:
\* result of get_value, "Unread" when the key could not be opened), stores
\* the Option and completes the Once
OutlookExeInit(t, key, value) ==
    /\ pc[t] = "init"
    /\ (key = "Ok") <=> (value # "Unread")
    /\ regLog' = Append(regLog, <<key, value>>)
    /\ cell' = OUTLOOK_EXE_value(key, value)
    /\ writes' = writes + 1
    /\ once' = "complete"
    /\ pc' = [pc EXCEPT ![t] = "assembled"]
    /\ UNCHANGED <<debug, mb, ncalls, hist, spawnVars, escVars>>

\* *OUTLOOK_EXE once the Once is complete
Deref(t) ==
    /\ pc[t] = "assembled"
    /\ once = "complete"
    /\ obs' = [obs EXCEPT ![t] = cell]
    /\ derefs' = [derefs EXCEPT ![t] = @ + 1]
    /\ pc' = [pc EXCEPT ![t] = "resolved"]
    /\ UNCHANGED <<debug, mb, ncalls, hist, lazyVars, s, a, cmd, result, escVars>>

(* ------------------------------- spawn -------------------------------- *)
\* the file name Windows would search for on its own
DefaultExe == <<"O">>

\* OUTLOOK_EXE.unwrap_or("OUTLOOK.EXE"): launches even when nothing was located
unwrap_or_default(opt) ==
    [tag |-> "Ok", path |-> IF opt.tag = "Some" THEN opt.path ELSE DefaultExe]

\* OUTLOOK_EXE.ok_or_else(|| io::Error::new(NotFound, "OUTLOOK.EXE"))
ok_or_else(opt) ==
    IF opt.tag = "Some" THEN [tag |-> "Ok", path |-> opt.path]
    ELSE [tag |-> "Err", path |-> Empty]

\* every spawn failure reported as the locator's error
spawn_result_as_not_found(r) == IF r = "Ok" THEN OkChild ELSE NotFoundError

\* Command::spawn()'s io::Result is spawn's return value
spawn_result(r) == IF r = "Ok" THEN OkChild ELSE OsError(r)

\* lines 202-237: s and a are built, self.file is replaced by its escape
SpawnAssemble(t) ==
    /\ pc[t] = "build"
    /\ s' = [s EXCEPT ![t] = assemble(mb[t])]
    /\ a' = [a EXCEPT ![t] = attachment_args(mb[t])]
    /\ mb' = [mb EXCEPT ![t].file = IF @ # Empty THEN percent_escape(@) ELSE @]
    /\ pc' = [pc EXCEPT ![t] = "assembled"]
    /\ UNCHANGED <<debug, ncalls, hist, lazyVars, obs, derefs, cmd, result, escVars>>

\* the ? operator returns the NotFound error
SpawnNotFound(t) ==
    /\ pc[t] = "resolved"
    /\ ok_or_else(obs[t]).tag = "Err"
    /\ result' = [result EXCEPT ![t] = NotFoundError]
    /\ pc' = [pc EXCEPT ![t] = "done"]
    /\ UNCHANGED <<debug, mb, ncalls, hist, lazyVars, s, a, obs, derefs, cmd, escVars>>

\* process::Command::new(outlook_exe)...spawn(), r: what the OS answers
SpawnCommand(t, r) ==
    /\ pc[t] = "resolved"
    /\ ok_or_else(obs[t]).tag = "Ok"
    /\ cmd' = [cmd EXCEPT ![t] =
                 Append(@, [exe |-> ok_or_else(obs[t]).path,
                            args |-> command_args(s[t], a[t])])]
    /\ result' = [result EXCEPT ![t] = spawn_result(r)]
    /\ pc' = [pc EXCEPT ![t] = "done"]
    /\ UNCHANGED <<debug, mb, ncalls, hist, lazyVars, s, a, obs, derefs, escVars>>

(* --------------------- direct call of percent_escape ------------------ *)
Escape ==
    /\ escPc = "ready"
    /\ escOut' = percent_escape(escIn)
    /\ escPc' = "done"
    /\ UNCHANGED <<debug, builderVars, lazyVars, spawnVars, escIn>>

(* ---------------------------- specifications -------------------------- *)
\* characters percent_escape is exercised on
Alphabet == {Pct, Quote, Amp, Qm, "a", "2"}
Strings(n) == UNION {[1..k -> Alphabet] : k \in 0..n}

\* arguments handed to the recipient adders
Addrs == {Empty, <<"c", "c", "=", "&">>}
\* arguments handed to with_subject, with_body, with_attachment
Texts == {Empty, <<"%", "\"", "?">>}

\* registry answers drawn in SpecBuild (SpecConc draws all of RegResults)
BuildRegResults == {"Ok", "NotFound"}

\* the thread owning the builder chain in SpecBuild
BuildThreads == {1}

\* the builder of the crate's example (lines 10-14), with short strings
Example ==
    with_attachment(
        with_body(
            with_subject(with_recipient(new, <<"a", "&">>), <<"H", "?">>),
            <<"%", "\"">>),
        <<"C", ":", "/", "f">>)

ConcBuilders == {new, Example}

HistOf(b) == [to |-> b.to, cc |-> b.cc, bcc |-> b.bcc,
              subj |-> b.subj, body |-> b.body, file |-> b.file,
              nsubj |-> IF b.subj # Empty THEN 1 ELSE 0,
              nbody |-> IF b.body # Empty THEN 1 ELSE 0,
              nfile |-> IF b.file # Empty THEN 1 ELSE 0]

CallsOf(h) == Len(h.to) + Len(h.cc) + Len(h.bcc) + h.nsubj + h.nbody + h.nfile

InitShared ==
    /\ once = "incomplete"
    /\ cell = Uninit
    /\ regLog = <<>>
    /\ writes = 0
    /\ s = [t \in Threads |-> Empty]
    /\ a = [t \in Threads |-> <<>>]
    /\ obs = [t \in Threads |-> Uninit]
    /\ derefs = [t \in Threads |-> 0]
    /\ cmd = [t \in Threads |-> <<>>]
    /\ result = [t \in Threads |-> Pending]

\* one thread chains setters on MessageBuilder::new() and then spawns
InitBuild ==
    /\ InitShared
    /\ debug \in BOOLEAN
    /\ mb = [t \in Threads |-> new]
    /\ pc = [t \in Threads |-> IF t \in BuildThreads THEN "build" ELSE "idle"]
    /\ ncalls = [t \in Threads |-> 0]
    /\ hist = [t \in Threads |-> NoHist]
    /\ escIn = Empty /\ escOut = Empty /\ escPc = "off"

NextBuild ==
    \E t \in BuildThreads :
        \/ \E v \in Texts : WithSubject(t, v)
        \/ \E v \in Addrs : WithRecipient(t, v)
        \/ \E v \in Addrs : WithRecipientCc(t, v)
        \/ \E v \in Addrs : WithRecipientBcc(t, v)
        \/ \E v \in Texts : WithBody(t, v)
        \/ \E v \in Texts : WithAttachment(t, v)
        \/ SpawnAssemble(t)
        \/ OnceBegin(t)
        \/ \E key \in BuildRegResults, value \in BuildRegResults \cup {"Unread"} :
               OutlookExeInit(t, key, value)
        \/ Deref(t)
        \/ SpawnNotFound(t)
        \/ \E r \in SpawnOutcomes : SpawnCommand(t, r)

SpecBuild == InitBuild /\ [][NextBuild]_vars

\* every thread holds a finished builder and calls spawn
InitConc ==
    /\ InitShared
    /\ debug \in BOOLEAN
    /\ mb \in [Threads -> ConcBuilders]
    /\ pc = [t \in Threads |-> "build"]
    /\ hist = [t \in Threads |-> HistOf(mb[t])]
    /\ ncalls = [t \in Threads |-> CallsOf(HistOf(mb[t]))]
    /\ escIn = Empty /\ escOut = Empty /\ escPc = "off"

NextConc ==
    \E t \in Threads :
        \/ SpawnAssemble(t)
        \/ OnceBegin(t)
        \/ \E key \in RegResults, value \in RegResults \cup {"Unread"} :
               OutlookExeInit(t, key, value)
        \/ Deref(t)
        \/ SpawnNotFound(t)
        \/ \E r \in SpawnOutcomes : SpawnCommand(t, r)

SpecConc == InitConc /\ [][NextConc]_vars

\* percent_escape called on every string up to MaxLen characters
InitEscape ==
    /\ InitShared
    /\ debug = FALSE
    /\ mb = [t \in Threads |-> new]
    /\ pc = [t \in Threads |-> "idle"]
    /\ ncalls = [t \in Threads |-> 0]
    /\ hist = [t \in Threads |-> NoHist]
    /\ escIn \in Strings(MaxLen)
    /\ escOut = Empty
    /\ escPc = "ready"

NextEscape == Escape

SpecEscape == InitEscape /\ [][NextEscape]_vars

(* ------------------------- helpers of the properties ------------------ *)
Specials == {Pct, Quote, Amp, Qm}

\* the escape sequence of one character
Code(c) ==
    CASE c = Pct -> <<"%", "2", "5">>
      [] c = Quote -> <<"%", "2", "2">>
      [] c = Amp -> <<"%", "2", "6">>
      [] c = Qm -> <<"%", "3", "F">>
      [] OTHER -> <<c>>

\* one left-to-right pass replacing every character by its escape sequence
EncodeOnce(str) == Concat([i \in 1..Len(str) |-> Code(str[i])])

Count(str, c) == Cardinality({i \in DOMAIN str : str[i] = c})

CountIn(str, cs) == Cardinality({i \in DOMAIN str : str[i] \in cs})

StartsWith(str, pre) ==
    Len(str) >= Len(pre) /\ SubSeq(str, 1, Len(pre)) = pre

Strip(str, pre) == SubSeq(str, Len(pre) + 1, Len(str))

RECURSIVE Unescape(_)
\* undoes percent_escape: %25, %22, %26, %3F back to the character
Unescape(str) ==
    IF str = <<>> THEN <<>>
    ELSE IF Head(str) = Pct /\ Len(str) >= 3 /\ \E c \in Specials : Code(c) = SubSeq(str, 1, 3)
    THEN <<CHOOSE c \in Specials : Code(c) = SubSeq(str, 1, 3)>>
             \o Unescape(SubSeq(str, 4, Len(str)))
    ELSE <<Head(str)>> \o Unescape(Tail(str))

RECURSIVE Split(_)
\* the pieces of str between its & characters
Split(str) ==
    IF \A i \in DOMAIN str : str[i] # Amp THEN <<str>>
    ELSE LET i == CHOOSE k \in DOMAIN str :
                      str[k] = Amp /\ \A j \in 1..(k - 1) : str[j] # Amp
         IN  <<SubSeq(str, 1, i - 1)>> \o Split(SubSeq(str, i + 1, Len(str)))

Pieces(str) == IF str = Empty THEN <<>> ELSE Split(str)

\* thread t has run spawn's string assembly
Assembled(t) == pc[t] \in {"assembled", "init", "resolved", "done"}

Fields == <<"to", "cc", "bcc", "subj", "body">>

Prefix(f) ==
    CASE f = "to" -> Empty
      [] f = "cc" -> Str_cc
      [] f = "bcc" -> Str_bcc
      [] f = "subj" -> Str_subject
      [] f = "body" -> Str_body

\* the raw text of a field: lists joined by ;
Joined(b, f) ==
    CASE f = "to" -> join(b.to, <<Semi>>)
      [] f = "cc" -> join(b.cc, <<Semi>>)
      [] f = "bcc" -> join(b.bcc, <<Semi>>)
      [] f = "subj" -> b.subj
      [] f = "body" -> b.body

\* a field that takes part in the parameter string: a To list whose joined
\* text is non-empty, a cc or bcc list with an element, a non-empty subject/body
Emitted(b, f) ==
    CASE f = "to" -> join(b.to, <<Semi>>) # Empty
      [] f = "cc" -> b.cc # <<>>
      [] f = "bcc" -> b.bcc # <<>>
      [] f = "subj" -> b.subj # Empty
      [] f = "body" -> b.body # Empty

\* the emitted fields in the fixed order
EmittedFields(b) == SelectSeq(Fields, LAMBDA f : Emitted(b, f))

\* the builder as the setter arguments describe it
Given(t) == [subj |-> hist[t].subj, to |-> hist[t].to, cc |-> hist[t].cc,
             bcc |-> hist[t].bcc, body |-> hist[t].body, file |-> hist[t].file]

(* ------------------------------ properties ---------------------------- *)

\* C1: percent_escape returns its input with every %, ", & and ? replaced
\* exactly once by %25, %22, %26, %3F and every other character unchanged
\* and in place; an input % is not double-encoded and the % inserted by the
\* later replacements are not re-encoded (one % and two more characters per
\* special character of the input).
C1_EscapeOnce ==
    escPc = "done" =>
        /\ escOut = EncodeOnce(escIn)
        /\ Count(escOut, Pct) = CountIn(escIn, Specials)
        /\ Len(escOut) = Len(escIn) + 2 * CountIn(escIn, Specials)
        /\ Unescape(escOut) = escIn

\* an input holding all four special characters has been escaped
C1_Witness ==
    /\ escPc = "done"
    /\ escIn = <<Pct, Quote, Amp, Qm>>
    /\ escOut = <<"%", "2", "5", "%", "2", "2", "%", "2", "6", "%", "3", "F">>

\* the segment of field f: its prefix and its escaped joined text
Segment(b, f) == Prefix(f) \o EncodeOnce(Joined(b, f))

\* C2: the assembled parameter lists the segments of the emitted fields in
\* the order To, cc=, bcc=, subject=, body=, To bare and the others
\* prefixed, with one & between consecutive segments and none in front;
\* with all five emitted it is <to>&cc=<cc>&bcc=<bcc>&subject=<subj>&body=<body>,
\* with only subject and body it is subject=<subj>&body=<body>.
C2_SegmentOrder ==
    \A t \in Threads :
        Assembled(t) =>
            LET b == Given(t)
                fs == EmittedFields(b)
            IN  /\ s[t] = join([i \in 1..Len(fs) |-> Segment(b, fs[i])], <<Amp>>)
                /\ (s[t] # Empty => Head(s[t]) # Amp)
                /\ fs = Fields =>
                       s[t] = Concat(<<Segment(b, "to"), <<Amp>>, Segment(b, "cc"),
                                       <<Amp>>, Segment(b, "bcc"),
                                       <<Amp>>, Segment(b, "subj"),
                                       <<Amp>>, Segment(b, "body")>>)
                /\ fs = <<"subj", "body">> =>
                       s[t] = Concat(<<Segment(b, "subj"), <<Amp>>,
                                       Segment(b, "body")>>)

\* spawn has assembled the string of a builder with all five fields non-empty
C2_Witness ==
    \E t \in Threads :
        /\ Assembled(t)
        /\ EmittedFields(Given(t)) = Fields
        /\ \A f \in {"cc", "bcc"} : Joined(Given(t), f) # Empty
        /\ Count(s[t], Amp) = 4

\* C5: when the executable is located, the one Command spawn runs gets the
\* arguments /c, ipm.note, /m, <assembled parameter>, then /a and the escaped
\* attachment path exactly when a (non-empty) attachment was set; a builder
\* with no field set gives an empty parameter and no /a pair.
C5_CommandArgs ==
    \A t \in Threads :
        /\ (pc[t] = "done" /\ obs[t].tag = "Some") => Len(cmd[t]) = 1
        /\ \A i \in DOMAIN cmd[t] :
               /\ cmd[t][i].exe = ExePath
               /\ SubSeq(cmd[t][i].args, 1, 4) = <<Arg_c, Arg_ipm_note, Arg_m, s[t]>>
               /\ SubSeq(cmd[t][i].args, 5, Len(cmd[t][i].args)) =
                      IF hist[t].file # Empty
                      THEN <<Arg_a, EncodeOnce(hist[t].file)>>
                      ELSE <<>>
        /\ (Assembled(t) /\ ncalls[t] = 0) => (s[t] = Empty /\ a[t] = <<>>)

\* a Command was run for a builder whose attachment needs escaping
C5_Witness ==
    \E t \in Threads :
        /\ Len(cmd[t]) = 1
        /\ hist[t].file # Empty
        /\ EncodeOnce(hist[t].file) # hist[t].file
        /\ Len(cmd[t][1].args) = 6

\* C6: new() has six empty fields and, after any sequence of setter calls,
\* to, cc and bcc hold the arguments of with_recipient, with_recipient_cc and
\* with_recipient_bcc in call order, and subject, body and attachment hold the
\* last argument of their setter: no setter touches a field other than its own.
C6_SetterFrame ==
    \A t \in Threads :
        /\ ncalls[t] = 0 => mb[t] = new
        /\ mb[t].to = hist[t].to
        /\ mb[t].cc = hist[t].cc
        /\ mb[t].bcc = hist[t].bcc
        /\ pc[t] = "build" =>
               /\ mb[t].subj = hist[t].subj
               /\ mb[t].body = hist[t].body
               /\ mb[t].file = hist[t].file

\* two To addresses in call order next to a cc, a bcc and a subject
C6_Witness ==
    \E t \in Threads :
        /\ pc[t] = "build"
        /\ Len(mb[t].to) = 2 /\ mb[t].to[1] = Empty /\ mb[t].to[2] # Empty
        /\ Len(mb[t].cc) = 1 /\ Len(mb[t].bcc) = 1
        /\ mb[t].subj # Empty

\* the registry query found no readable path
LookupAbsent == regLog # <<>> /\ regLog[1] # <<"Ok", "Ok">>

\* C3: when the registry lookup yields absence (open_subkey or get_value
\* failed, for whatever reason) the lookup still completes, with None, and
\* every spawn call returns the NotFound error without running a Command.
C3_AbsenceIsNotFound ==
    /\ once = "complete" => cell.tag \in {"None", "Some"}
    /\ LookupAbsent =>
           /\ cell = None
           /\ \A t \in Threads :
                  /\ cmd[t] = <<>>
                  /\ pc[t] = "done" =>
                         (result[t].tag = "Err" /\ result[t].kind = "NotFound")

\* the default value could not be read and every thread's spawn has returned
C3_Witness ==
    /\ regLog = << <<"Ok", "Denied">> >>
    /\ \A t \in Threads : pc[t] = "done" /\ result[t] = NotFoundError
    /\ \E t \in Threads : hist[t].to # <<>>

\* C4: over all spawn calls of the process, also when several threads reach
\* OUTLOOK_EXE before it is initialised, the registry is queried at most
\* once, the stored Option is written at most once, and every call observes
\* the stored value.
C4_QueriedOnce ==
    /\ Len(regLog) <= 1
    /\ writes <= 1
    /\ \A t \in Threads : derefs[t] > 0 => obs[t] = cell
    /\ \A t, u \in Threads : (derefs[t] > 0 /\ derefs[u] > 0) => obs[t] = obs[u]

\* one thread has taken the result while another one, which reached
\* OUTLOOK_EXE during the initialisation, has since read the same value
C4_Witness ==
    \E t, u \in Threads :
        /\ t # u
        /\ pc[t] = "done" /\ pc[u] = "resolved"
        /\ obs[t] = Some(ExePath) /\ obs[u] = obs[t]
        /\ Len(regLog) = 1

\* C7 (as claimed): a second call of with_subject, with_body or
\* with_attachment on one chain fails the assertion of a debug build whatever
\* the arguments were; a build without debug assertions raises nothing and
\* keeps the argument of the last call.
C7_SecondCallDetected ==
    \A t \in Threads :
        (hist[t].nsubj >= 2 \/ hist[t].nbody >= 2 \/ hist[t].nfile >= 2) =>
            IF debug
            THEN pc[t] = "panicked"
            ELSE /\ pc[t] # "panicked"
                 /\ pc[t] = "build" =>
                        /\ mb[t].subj = hist[t].subj
                        /\ mb[t].body = hist[t].body
                        /\ mb[t].file = hist[t].file

\* C8 (as claimed): an error coming from the Command never has the error
\* kind of the locator-absence case.
C8_KindDistinguishes ==
    \A t \in Threads :
        (cmd[t] # <<>> /\ result[t].tag = "Err") =>
            result[t].kind # NotFoundError.kind

\* C8 (amended): locator absence gives the NotFound error carrying
\* "OUTLOOK.EXE" and no Command is run; a failure of the Command is returned
\* as the operating system produced it, of any kind, NotFound included, and
\* never as the locator's error; one spawn call dereferences OUTLOOK_EXE at
\* most once and runs at most one Command.
C8_ErrorsPassedThrough ==
    \A t \in Threads :
        /\ derefs[t] <= 1
        /\ Len(cmd[t]) <= 1
        /\ (result[t].tag = "Err" /\ cmd[t] = <<>>) =>
               (result[t] = NotFoundError /\ obs[t] = None)
        /\ (result[t].tag = "Err" /\ cmd[t] # <<>>) =>
               /\ result[t] # NotFoundError
               /\ result[t].kind \in OsErrorKinds
               /\ obs[t].tag = "Some"

\* the Command failed with kind NotFound although the path was registered
C8_Witness ==
    \E t \in Threads :
        /\ pc[t] = "done"
        /\ Len(cmd[t]) = 1
        /\ result[t] = OsError("NotFound")
        /\ derefs[t] = 1

\* str holds the prefix directly followed by & or by the end of the string
BareField(str, pre) ==
    \E i \in DOMAIN str :
        /\ i + Len(pre) - 1 <= Len(str)
        /\ SubSeq(str, i, i + Len(pre) - 1) = pre
        /\ (i + Len(pre) > Len(str) \/ str[i + Len(pre)] = Amp)

\* C9 (as claimed): whatever the setter arguments, empty strings included,
\* the assembled string never holds cc=, bcc=, subject= or body= directly
\* followed by & or by the end, and has a To segment only when some To
\* address is non-empty.
C9_NoEmptySegment ==
    \A t \in Threads :
        Assembled(t) =>
            /\ \A f \in {"cc", "bcc", "subj", "body"} : ~BareField(s[t], Prefix(f))
            /\ Emitted(Given(t), "to") =>
                   \E i \in DOMAIN hist[t].to : hist[t].to[i] # Empty

\* every % of str is followed by 25, 22, 26 or 3F
WellEscaped(str) ==
    \A i \in DOMAIN str :
        str[i] = Pct =>
            /\ i + 2 <= Len(str)
            /\ \E c \in Specials : Code(c) = SubSeq(str, i, i + 2)

\* the field a reader attributes a piece to, going by its text
FieldByPrefix(piece) ==
    IF StartsWith(piece, Str_cc) THEN "cc"
    ELSE IF StartsWith(piece, Str_bcc) THEN "bcc"
    ELSE IF StartsWith(piece, Str_subject) THEN "subj"
    ELSE IF StartsWith(piece, Str_body) THEN "body"
    ELSE "to"

\* the text a reader recovers for field f: the first piece attributed to f,
\* its prefix removed and the escape undone; empty when there is none
Recovered(str, f) ==
    LET ps == Pieces(str)
        idx == {i \in DOMAIN ps : FieldByPrefix(ps[i]) = f}
    IN  IF idx = {} THEN Empty
        ELSE LET i == CHOOSE k \in idx : \A j \in idx : k <= j
             IN  Unescape(Strip(ps[i], Prefix(f)))

\* what holds of the characters of the assembled string
NoDelimiterFromContent(t) ==
    /\ Count(s[t], Quote) = 0
    /\ Count(s[t], Qm) = 0
    /\ WellEscaped(s[t])
    /\ Count(s[t], Amp) =
           IF EmittedFields(Given(t)) = <<>> THEN 0
           ELSE Len(EmittedFields(Given(t))) - 1

\* C10 (as claimed): the assembled string has no " and no ?, every % starts
\* an escape, the & are one fewer than the segments, and splitting on & and
\* undoing the escape gives back the value of every field.
C10_ContentRecovered ==
    \A t \in Threads :
        Assembled(t) =>
            /\ NoDelimiterFromContent(t)
            /\ \A i \in DOMAIN Fields :
                   Recovered(s[t], Fields[i]) = Joined(Given(t), Fields[i])

\* C10 (amended): the assembled string has no " and no ?, every % starts an
\* escape, the & are one fewer than the segments, and splitting on & gives
\* the segments of the emitted fields in the order To, cc, bcc, subject,
\* body; removing the field's prefix from its segment and undoing the escape
\* gives back the field's text (its addresses joined by ;). Which field a
\* segment belongs to follows from its position among the emitted fields,
\* not from its text: a To text starting with cc= reads as a cc segment.
C10_SegmentsRecovered ==
    \A t \in Threads :
        Assembled(t) =>
            LET fs == EmittedFields(Given(t))
                ps == Pieces(s[t])
            IN  /\ NoDelimiterFromContent(t)
                /\ Len(ps) = Len(fs)
                /\ \A i \in DOMAIN ps :
                       /\ StartsWith(ps[i], Prefix(fs[i]))
                       /\ Unescape(Strip(ps[i], Prefix(fs[i]))) =
                              Joined(Given(t), fs[i])

\* a To address holding & and a subject holding %, " and ? were assembled
C10_Witness ==
    \E t \in Threads :
        /\ Assembled(t)
        /\ \E i \in DOMAIN hist[t].to : Count(hist[t].to[i], Amp) > 0
        /\ Count(hist[t].subj, Qm) > 0
        /\ hist[t].bcc # <<>>
        /\ Len(Pieces(s[t])) = 3

====
